---- MODULE Spec2Model ----
(***************************************************************************)
(* Model of the service-desk metrics and anomaly-detection engine of       *)
(* calculations.py and of the dashboard callback that drives it.           *)
(*                                                                         *)
(*   Spec         log_anomaly called sequentially (one call is one step)   *)
(*   SpecConc     log_anomaly called from concurrent request threads       *)
(*   SpecClassify detect_metric_anomaly applied to a series                *)
(*   SpecHours    get_swedish_business_hours applied to a row              *)
(*   SpecSla      calculate_metrics applied to a ticket                    *)
(*   SpecFcr      render_fcr_gauges and update_anomaly_alerts on df        *)
(*   SpecTrend    update_mttr_trend on df                                  *)
(*   SpecFrame    the core functions called on a frame the caller holds    *)
(***************************************************************************)
EXTENDS Integers, Sequences, FiniteSets, TLC

VARIABLES
    last_alert_sent,  \* calculations.last_alert_sent: metric name -> time of last alert
    log,              \* records appended to service_alerts.log
    outbox,           \* notification attempts handed to the SMTP transport
    clock,            \* datetime.now(), in whole hours
    ncalls,           \* number of log_anomaly calls started
    critical_calls,   \* number of log_anomaly calls started with the red token
    last_call,        \* arguments and outcome of the latest completed log_anomaly call
    thr,              \* per request thread: position inside log_anomaly and its locals
    series,           \* argument of detect_metric_anomaly
    sigma_threshold,  \* argument of detect_metric_anomaly
    verdict,          \* result of detect_metric_anomaly
    row,              \* a ticket row: Created, Resolved, Priority
    duration,         \* result of get_swedish_business_hours, in minutes
    ticket,           \* the row of calculate_metrics' result
    df,               \* a DataFrame of tickets: the dashboard's df, or a caller's frame
    returned_df,      \* result of calculate_metrics applied to df
    gauges,           \* result of get_fcr_gauges
    trends,           \* the series update_anomaly_alerts builds and their classification
    trend_table       \* result of get_mttr_trend_data

alertVars == <<last_alert_sent, log, outbox, clock, ncalls, critical_calls, last_call, thr>>
classifyVars == <<series, sigma_threshold, verdict>>
ticketVars == <<row, duration, ticket>>
frameVars == <<df, returned_df, gauges, trends, trend_table>>
vars == <<alertVars, classifyVars, ticketVars, frameVars>>

None == "None"

(***************************************************************************)
(* Bounds of the model.                                                    *)
(***************************************************************************)
MaxTime == 5
MaxCalls == 3
MaxConcCalls == 2
MaxSeriesLen == 5
MaxSigma == 3
MaxStartDay == 6
MaxSpanWeeks == 1
MaxPrioLen == 2
MaxPrioInt == 5
MaxMonths == 7
MaxTickets == 3
MaxFrameRows == 2

(***************************************************************************)
(* Severity tokens and classifications of detect_metric_anomaly.           *)
(***************************************************************************)
RED == "#F70D1A"
YELLOW == "#FFBF00"
GREEN == "#228B22"
TEAL == "#0C868A"
GREY == "#64748b"

CRITICAL_DROP == <<"CRITICAL PERFORMANCE DROP", RED>>
UNUSUAL_DECREASE == <<"UNUSUAL DECREASE", YELLOW>>
SIGNIFICANT_IMPROVEMENT == <<"SIGNIFICANT IMPROVEMENT", GREEN>>
STABLE_PERFORMANCE == <<"STABLE PERFORMANCE", TEAL>>
INSUFFICIENT_DATA == <<"INSUFFICIENT DATA", GREY>>

Verdicts == {CRITICAL_DROP, UNUSUAL_DECREASE, SIGNIFICANT_IMPROVEMENT,
             STABLE_PERFORMANCE, INSUFFICIENT_DATA}

\* The metric names update_anomaly_alerts passes to log_anomaly.
MetricNames == {"SLA Priority 1", "Global FCR"}

(***************************************************************************)
(* AlertDispatcher: send_email_alert and log_anomaly (the definitions in   *)
(* force after import are the later ones of calculations.py).              *)
(***************************************************************************)
CooldownHours == 4

\* send_email_alert up to the end of the SMTP exchange (lines 258-268):
\* delivered tells whether the server accepted the message (send_message
\* returned), failed whether one of SMTP(), starttls(), login(),
\* send_message() or quit() raised.  An exception is caught (line 269) and
\* does not leave the function.
MutSendNoCatch(subject, at, delivered, failed) ==
    [attempt |-> [subject |-> subject, at |-> at, delivered |-> delivered],
     caught |-> FALSE,
     raised |-> failed]

send_email_alert(subject, at, delivered, failed) ==
    [attempt |-> [subject |-> subject, at |-> at, delivered |-> delivered],
     caught |-> failed,
     raised |-> FALSE]

\* if color == "#F70D1A":  # CRITICAL ONLY
MutActsOnWarning(color) == color \in {RED, YELLOW}

IsCritical(color) == color = RED

\* last_time is None or (current_time - last_time) > timedelta(hours=4)
MutCooldownInclusive(alerts, metric_name, current_time) ==
    \/ metric_name \notin DOMAIN alerts
    \/ current_time - alerts[metric_name] >= CooldownHours

CooldownElapsed(alerts, metric_name, current_time) ==
    \/ metric_name \notin DOMAIN alerts
    \/ current_time - alerts[metric_name] > CooldownHours

\* last_alert_sent[metric_name] = current_time
SetItem(alerts, metric_name, current_time) ==
    [k \in DOMAIN alerts \cup {metric_name} |->
        IF k = metric_name THEN current_time ELSE alerts[k]]

\* last_alert_sent[metric_name] = current_time, reached after send_email_alert
\* has returned, whatever the outcome of the transport
MutStampOnlyOnDelivery(alerts, metric_name, current_time, transport) ==
    IF transport = "ok" THEN SetItem(alerts, metric_name, current_time) ELSE alerts

StampAfterSend(alerts, metric_name, current_time, transport) ==
    SetItem(alerts, metric_name, current_time)

\* What the caller of log_anomaly has observed; NoCall before the first call.
NoCall == [seq |-> 0, metric_name |-> None, status |-> None, color |-> None,
           current_time |-> 0, notified |-> FALSE, transport |-> "not attempted",
           outcome |-> "none"]
NoVerdict == <<None, None>>
NaT == -1
\* A Priority cell holds a string (a sequence of characters), an integer or NaN.
StrCell(chars) == [kind |-> "str", chars |-> chars, value |-> 0]
IntCell(n) == [kind |-> "int", chars |-> <<>>, value |-> n]
NaNCell == [kind |-> "nan", chars |-> <<>>, value |-> 0]
NoRow == [Created |-> NaT, Resolved |-> NaT, Priority |-> StrCell(<<>>)]
NoTicket == [Created |-> NaT, Resolved |-> NaT, Priority |-> StrCell(<<>>),
             Resolution_duration |-> <<>>, MTTR_seconds |-> NaT, SLA |-> None]

\* A request thread: where it is inside log_anomaly, the call's arguments and
\* locals, and the log_anomaly calls its callback has still to make.
IdleThread == [pc |-> "idle", seq |-> 0, metric_name |-> None, status |-> None,
               color |-> None, current_time |-> 0, transport |-> "not attempted",
               created |-> 0, pending |-> <<>>]
Threads == {1, 2}
MainThread == 1

InitAlert ==
    /\ last_alert_sent = <<>>
    /\ log = <<>>
    /\ outbox = <<>>
    /\ clock = 0
    /\ ncalls = 0
    /\ critical_calls = 0
    /\ last_call = NoCall
    /\ thr = [t \in Threads |-> IdleThread]

InitClassifyIdle ==
    /\ series = <<>>
    /\ sigma_threshold = 2
    /\ verdict = NoVerdict

InitTicketIdle ==
    /\ row = NoRow
    /\ duration = NaT
    /\ ticket = NoTicket

\* A DataFrame: the dtype of its Created column and its rows.
Frame(dtype, rows) == [dtype |-> dtype, rows |-> rows]
DATETIME == "datetime64[ns]"
OBJECT == "object"
NoGauges == [rendered |-> FALSE, list |-> <<>>]
NoTrends == [computed |-> FALSE, sla |-> <<>>, fcr |-> <<>>,
             sla_verdict |-> NoVerdict, fcr_verdict |-> NoVerdict]
NoTable == [computed |-> FALSE, selected_month |-> <<0, 0>>, outcome |-> "none",
            rows |-> <<>>]

NoFrame == [outcome |-> "none", frame |-> Frame(DATETIME, <<>>)]

InitFrameIdle ==
    /\ df = Frame(DATETIME, <<>>)
    /\ returned_df = NoFrame
    /\ gauges = NoGauges
    /\ trends = NoTrends
    /\ trend_table = NoTable

\* The wall clock advances.
Tick ==
    /\ clock < MaxTime
    /\ clock' = clock + 1
    /\ UNCHANGED <<last_alert_sent, log, outbox, ncalls, critical_calls, last_call, thr>>
    /\ UNCHANGED <<classifyVars, ticketVars, frameVars>>

(***************************************************************************)
(* log_anomaly, statement by statement.  It takes no lock and the SMTP     *)
(* exchange blocks, so the clock and other request threads can move        *)
(* between any two of its statements.                                      *)
(***************************************************************************)
\* What the caller of a finished call has observed.
Observed(th, outcome) ==
    [seq |-> th.seq, metric_name |-> th.metric_name, status |-> th.status,
     color |-> th.color, current_time |-> th.current_time,
     notified |-> th.transport # "not attempted", transport |-> th.transport,
     outcome |-> outcome]

\* The thread after log_anomaly has returned: back in its callback.
Returned(th) ==
    IF th.pending = <<>> THEN IdleThread
    ELSE [IdleThread EXCEPT !.pc = "enter", !.pending = th.pending]

\* if color == "#F70D1A": current_time = datetime.now(); any other color returns.
Begin(t, metric_name, v, pending) ==
    /\ ncalls' = ncalls + 1
    /\ critical_calls' = IF v[2] = RED THEN critical_calls + 1 ELSE critical_calls
    /\ LET call == [pc |-> "check", seq |-> ncalls + 1, metric_name |-> metric_name,
                    status |-> v[1], color |-> v[2], current_time |-> clock,
                    transport |-> "not attempted", created |-> 0,
                    pending |-> pending]
       IN  IF IsCritical(v[2])
           THEN /\ thr' = [thr EXCEPT ![t] = call]
                /\ last_call' = last_call
           ELSE /\ thr' = [thr EXCEPT ![t] = Returned(call)]
                /\ last_call' = Observed(call, "returned")
    /\ UNCHANGED <<last_alert_sent, log, outbox, clock>>

\* log_anomaly(metric_name, status, color) called by a request thread.
Enter(t, metric_name, v, budget) ==
    /\ thr[t].pc = "idle"
    /\ ncalls < budget
    /\ Begin(t, metric_name, v, <<>>)
    /\ UNCHANGED <<classifyVars, ticketVars, frameVars>>

\* last_time = last_alert_sent.get(metric_name) and the cool-down test.
CheckCooldown(t) ==
    /\ thr[t].pc = "check"
    /\ IF CooldownElapsed(last_alert_sent, thr[t].metric_name, thr[t].current_time)
       THEN /\ thr' = [thr EXCEPT ![t].pc = "log"]
            /\ last_call' = last_call
       ELSE /\ thr' = [thr EXCEPT ![t] = Returned(thr[t])]
            /\ last_call' = Observed(thr[t], "returned")
    /\ UNCHANGED <<last_alert_sent, log, outbox, clock, ncalls, critical_calls>>
    /\ UNCHANGED <<classifyVars, ticketVars, frameVars>>

\* logging.critical(...) and logging.error(...) create the LogRecord first: it
\* reads the time (%(asctime)s) before the handler's lock is taken and the
\* line is appended, and another thread's line can get in between.
MakeLogRecord(t) ==
    /\ thr[t].pc \in {"log", "except"}
    /\ thr' = [thr EXCEPT ![t].created = clock,
                          ![t].pc = IF thr[t].pc = "log" THEN "handle"
                                    ELSE "handle error"]
    /\ UNCHANGED <<last_alert_sent, log, outbox, clock, ncalls, critical_calls, last_call>>
    /\ UNCHANGED <<classifyVars, ticketVars, frameVars>>

\* logging.critical(f"{metric_name} - {status}"): the handler appends the line,
\* which carries the time at which its record was created.
WriteLog(t) ==
    /\ thr[t].pc = "handle"
    /\ log' = Append(log, [asctime |-> thr[t].created, levelname |-> "CRITICAL",
                           message |-> <<thr[t].metric_name, thr[t].status>>])
    /\ thr' = [thr EXCEPT ![t].pc = "send"]
    /\ UNCHANGED <<last_alert_sent, outbox, clock, ncalls, critical_calls, last_call>>
    /\ UNCHANGED <<classifyVars, ticketVars, frameVars>>

\* send_email_alert(subject, body): the SMTP exchange.  The message is
\* accepted and nothing raises, or something raises before the message is
\* accepted, or quit() raises after it was.
SendEmail(t, delivered, failed) ==
    /\ thr[t].pc = "send"
    /\ delivered \/ failed
    /\ LET sent == send_email_alert(thr[t].metric_name, thr[t].current_time,
                                    delivered, failed)
           after == [thr[t] EXCEPT !.transport = IF failed THEN "failed" ELSE "ok"]
       IN  /\ outbox' = Append(outbox, sent.attempt)
           /\ IF sent.raised
              THEN /\ thr' = [thr EXCEPT ![t] = IdleThread]
                   /\ last_call' = Observed(after, "raised")
              ELSE /\ thr' = [thr EXCEPT ![t] =
                                [after EXCEPT !.pc = IF sent.caught THEN "except"
                                                     ELSE "update"]]
                   /\ last_call' = last_call
    /\ UNCHANGED <<last_alert_sent, log, clock, ncalls, critical_calls>>
    /\ UNCHANGED <<classifyVars, ticketVars, frameVars>>

\* except Exception as e: logging.error(f"Failed to send email: {e}"): the
\* handler appends the line, and send_email_alert returns.  The record holds
\* the text of the exception and nothing of the subject or the metric.
LogSendError(t) ==
    /\ thr[t].pc = "handle error"
    /\ log' = Append(log, [asctime |-> thr[t].created, levelname |-> "ERROR",
                           message |-> <<"Failed to send email", "str(e)">>])
    /\ thr' = [thr EXCEPT ![t].pc = "update"]
    /\ UNCHANGED <<last_alert_sent, outbox, clock, ncalls, critical_calls, last_call>>
    /\ UNCHANGED <<classifyVars, ticketVars, frameVars>>

\* last_alert_sent[metric_name] = current_time, and return.
UpdateLastSent(t) ==
    /\ thr[t].pc = "update"
    /\ last_alert_sent' = StampAfterSend(last_alert_sent, thr[t].metric_name,
                                         thr[t].current_time, thr[t].transport)
    /\ thr' = [thr EXCEPT ![t] = Returned(thr[t])]
    /\ last_call' = Observed(thr[t], "returned")
    /\ UNCHANGED <<log, outbox, clock, ncalls, critical_calls>>
    /\ UNCHANGED <<classifyVars, ticketVars, frameVars>>

Init == InitAlert /\ InitClassifyIdle /\ InitTicketIdle /\ InitFrameIdle

(***************************************************************************)
(* Spec: the calls are made one after the other, by one request thread.    *)
(***************************************************************************)
Next ==
    \/ \E m \in MetricNames, v \in Verdicts : Enter(MainThread, m, v, MaxCalls)
    \/ CheckCooldown(MainThread)
    \/ MakeLogRecord(MainThread)
    \/ WriteLog(MainThread)
    \/ \E delivered, failed \in BOOLEAN : SendEmail(MainThread, delivered, failed)
    \/ LogSendError(MainThread)
    \/ UpdateLastSent(MainThread)
    \/ Tick

Spec == Init /\ [][Next]_vars

(***************************************************************************)
(* SpecConc: the dashboard's server handles each callback request on a     *)
(* thread of its own, so calls of log_anomaly overlap.                     *)
(***************************************************************************)
NextConc ==
    \/ \E t \in Threads, m \in MetricNames, v \in Verdicts : Enter(t, m, v, MaxConcCalls)
    \/ \E t \in Threads : CheckCooldown(t)
    \/ \E t \in Threads : MakeLogRecord(t)
    \/ \E t \in Threads : WriteLog(t)
    \/ \E t \in Threads, delivered, failed \in BOOLEAN : SendEmail(t, delivered, failed)
    \/ \E t \in Threads : LogSendError(t)
    \/ \E t \in Threads : UpdateLastSent(t)
    \/ Tick

SpecConc == Init /\ [][NextConc]_vars

(***************************************************************************)
(* AnomalyDetector: detect_metric_anomaly.  A series is a sequence of      *)
(* integers; mean and standard deviation are kept exact: with n the length *)
(* of the baseline, S its sum, D = n*current - S and W = SUM (n*x - S)^2,  *)
(*   mu = S/n,  std = sqrt(W / (n-1)) / n,  z = D * sqrt(n-1) / sqrt(W),   *)
(* and z = 1000 * D / n when std is 0 and 0.001 takes its place.           *)
(***************************************************************************)
SeriesValues == {1, 8, 10, 12}

RECURSIVE Sum(_)
Sum(s) == IF s = <<>> THEN 0 ELSE s[1] + Sum(Tail(s))

\* baseline = series[:-1]
Baseline(s) == SubSeq(s, 1, Len(s) - 1)

\* n * (current - mu), with current = series.iloc[-1]
ScaledDeviation(s) == Len(Baseline(s)) * s[Len(s)] - Sum(Baseline(s))

\* n^2 * (n-1) * baseline.std()^2, pandas' sample standard deviation (ddof = 1)
ScaledSquares(s) ==
    LET b == Baseline(s)
    IN  Sum([i \in 1..Len(b) |-> (Len(b) * b[i] - Sum(b)) * (Len(b) * b[i] - Sum(b))])

\* std = baseline.std() if baseline.std() != 0 else 0.001
EpsilonInverse == 1000

\* a * sqrt(A2) < b * sqrt(B2) for the signed magnitudes a, b and squares A2, B2
SignedRootLess(a, A2, b, B2) ==
    IF a < 0 THEN b >= 0 \/ A2 > B2 ELSE b > 0 /\ A2 < B2

\* z_score < c, for an integer c
MutZLessOrEqual(s, c) ==
    LET n == Len(Baseline(s))
        D == ScaledDeviation(s)
        W == ScaledSquares(s)
    IN  IF W = 0 THEN EpsilonInverse * D <= c * n
        ELSE ~SignedRootLess(c, c * c * W, D, D * D * (n - 1))

ZLess(s, c) ==
    LET n == Len(Baseline(s))
        D == ScaledDeviation(s)
        W == ScaledSquares(s)
    IN  IF W = 0 THEN EpsilonInverse * D < c * n
        ELSE SignedRootLess(D, D * D * (n - 1), c, c * c * W)

\* z_score > c, for an integer c
ZGreater(s, c) ==
    LET n == Len(Baseline(s))
        D == ScaledDeviation(s)
        W == ScaledSquares(s)
    IN  IF W = 0 THEN EpsilonInverse * D > c * n
        ELSE SignedRootLess(c, c * c * W, D, D * D * (n - 1))

MutWarningFirst(s, sigma) ==
    IF Len(s) < 3 THEN INSUFFICIENT_DATA
    ELSE IF ZLess(s, -sigma) THEN UNUSUAL_DECREASE
    ELSE IF ZLess(s, -(sigma + 1)) THEN CRITICAL_DROP
    ELSE IF ZGreater(s, sigma) THEN SIGNIFICANT_IMPROVEMENT
    ELSE STABLE_PERFORMANCE

detect_metric_anomaly(s, sigma) ==
    IF Len(s) < 3 THEN INSUFFICIENT_DATA
    ELSE IF ZLess(s, -(sigma + 1)) THEN CRITICAL_DROP
    ELSE IF ZLess(s, -sigma) THEN UNUSUAL_DECREASE
    ELSE IF ZGreater(s, sigma) THEN SIGNIFICANT_IMPROVEMENT
    ELSE STABLE_PERFORMANCE

InitClassify ==
    /\ series \in UNION {[1..k -> SeriesValues] : k \in 0..MaxSeriesLen}
    /\ sigma_threshold \in (0 - MaxSigma)..MaxSigma
    /\ verdict = NoVerdict

\* status, color = detect_metric_anomaly(series, sigma_threshold)
Classify ==
    /\ verdict = NoVerdict
    /\ verdict' = detect_metric_anomaly(series, sigma_threshold)
    /\ UNCHANGED <<series, sigma_threshold>>
    /\ UNCHANGED <<alertVars, ticketVars, frameVars>>

NextClassify == Classify

InitClassifySpec == InitAlert /\ InitClassify /\ InitTicketIdle /\ InitFrameIdle

SpecClassify == InitClassifySpec /\ [][NextClassify]_vars

(***************************************************************************)
(* BusinessCalendar: get_swedish_business_hours.  A timestamp is a number  *)
(* of seconds since a Monday 00:00:00; NaT is the missing timestamp.       *)
(***************************************************************************)
Minute == 60
HourSeconds == 60 * Minute
Day == 24 * HourSeconds

\* pd.isnull(x)
IsNull(x) == x = NaT

\* DatetimeIndex.weekday: Monday is 0, Sunday is 6
WeekdayOf(t) == (t \div Day) % 7

\* DatetimeIndex.hour
HourOf(t) == (t % Day) \div HourSeconds

\* pd.date_range(start=start, end=end, freq='min'): start, start + 1 min, ...
\* up to and including end
MutDateRangeOpenEnd(start, end) ==
    [k \in 1..((end - start + Minute - 1) \div Minute) |-> start + (k - 1) * Minute]

date_range(start, end) ==
    [k \in 1..((end - start) \div Minute + 1) |-> start + (k - 1) * Minute]

\* (day_of_week <= 4) & (hour >= 7) & (hour < 18)
MutWeekdayMaskInclusive(t) == WeekdayOf(t) <= 4 /\ HourOf(t) >= 7 /\ HourOf(t) <= 18

weekday_mask(t) == WeekdayOf(t) <= 4 /\ HourOf(t) >= 7 /\ HourOf(t) < 18

\* (day_of_week >= 5) & (hour >= 8) & (hour < 16)
weekend_mask(t) == WeekdayOf(t) >= 5 /\ HourOf(t) >= 8 /\ HourOf(t) < 16

\* The number of minutes of the timedelta get_swedish_business_hours returns.
get_swedish_business_hours(r) ==
    IF IsNull(r.Created) \/ IsNull(r.Resolved) \/ r.Resolved <= r.Created
    THEN 0
    ELSE Len(SelectSeq(date_range(r.Created, r.Resolved),
                       LAMBDA t : weekday_mask(t) \/ weekend_mask(t)))

\* Times of day, in seconds: 00:00:00, 06:59:30, 07:00:00, 08:00:00, 12:00:00,
\* 15:59:00, 16:00:00, 17:59:00, 18:00:00.
ClockMarks == {0, 25170, 25200, 28800, 43200, 57540, 57600, 64740, 64800}

\* Elapsed seconds between Created and Resolved.
Spans == {0 - HourSeconds, 0, 30, 59, Minute, 90, 10 * Minute, HourSeconds, Day}
            \cup {w * 7 * Day : w \in 1..MaxSpanWeeks}

InitHours ==
    /\ \E c \in {d * Day + m : d \in 0..MaxStartDay, m \in ClockMarks},
          sp \in Spans, cm, rm \in BOOLEAN :
          row = [Created |-> IF cm THEN NaT ELSE c,
                 Resolved |-> IF rm THEN NaT ELSE c + sp,
                 Priority |-> StrCell(<<>>)]
    /\ duration = NaT
    /\ ticket = NoTicket

\* business_timedeltas = df.apply(get_swedish_business_hours, axis=1), one row
BusinessHours ==
    /\ duration = NaT
    /\ duration' = get_swedish_business_hours(row)
    /\ UNCHANGED <<row, ticket>>
    /\ UNCHANGED <<alertVars, classifyVars, frameVars>>

NextHours == BusinessHours

InitHoursSpec == InitAlert /\ InitClassifyIdle /\ InitHours /\ InitFrameIdle

SpecHours == InitHoursSpec /\ [][NextHours]_vars

(***************************************************************************)
(* MetricsCalculator: format_duration and calculate_metrics.               *)
(***************************************************************************)
\* format_duration(td) for td = timedelta(minutes=m): the fields of DD:HH:MM:SS
format_duration(m) ==
    IF m = NaT \/ m < 0 THEN <<0, 0, 0, 0>>
    ELSE LET secs == (m * Minute) % Day
         IN  <<(m * Minute) \div Day, secs \div HourSeconds,
               (secs % HourSeconds) \div Minute, (secs % HourSeconds) % Minute>>

DigitChars == <<"0", "1", "2", "3", "4", "5", "6", "7", "8", "9">>

\* str(n) for an integer n
RECURSIVE NatStr(_)
NatStr(n) == IF n < 10 THEN <<DigitChars[n + 1]>>
             ELSE Append(NatStr(n \div 10), DigitChars[(n % 10) + 1])

\* prio = str(row['Priority'])
Str(cell) ==
    IF cell.kind = "str" THEN cell.chars
    ELSE IF cell.kind = "int"
    THEN (IF cell.value < 0 THEN <<"-">> \o NatStr(0 - cell.value) ELSE NatStr(cell.value))
    ELSE <<"n", "a", "n">>

\* Characters outside '0'..'9' for which str.isdigit() holds, by their Unicode
\* names (U+00B2, U+0663, U+FF11).
OtherDigits == {"SUPERSCRIPT TWO", "ARABIC-INDIC DIGIT THREE", "FULLWIDTH DIGIT ONE"}

\* s.isdigit()
IsDigit(ch) == (\E i \in 1..Len(DigitChars) : DigitChars[i] = ch) \/ ch \in OtherDigits

\* p_digit = next((s for s in prio if s.isdigit()), '3')
RECURSIVE FirstDigit(_)
FirstDigit(prio) ==
    IF prio = <<>> THEN "3"
    ELSE IF IsDigit(prio[1]) THEN prio[1]
    ELSE FirstDigit(Tail(prio))

\* targets = {'1': 4, '2': 8, '3': 120, '4': 240};  targets.get(p_digit, 120)
TargetHours(p_digit) ==
    CASE p_digit = "1" -> 4
      [] p_digit = "2" -> 8
      [] p_digit = "3" -> 120
      [] p_digit = "4" -> 240
      [] OTHER -> 120

\* "Compliant" if row['MTTR'] <= targets.get(p_digit, 120) else "Breach",
\* with MTTR = total_seconds / 3600
check_sla(priority, mttr_seconds) ==
    IF mttr_seconds <= TargetHours(FirstDigit(Str(priority))) * HourSeconds
    THEN "Compliant" ELSE "Breach"

\* A row of the frame calculate_metrics returns: every column of df kept,
\* Resolution_duration, MTTR (here in seconds) and SLA added.
ComputedRow(r) ==
    LET business_minutes == get_swedish_business_hours(r)
    IN  [c \in DOMAIN r \cup {"Resolution_duration", "MTTR_seconds", "SLA"} |->
           CASE c = "Resolution_duration" -> format_duration(business_minutes)
             [] c = "MTTR_seconds" -> business_minutes * Minute
             [] c = "SLA" -> check_sla(r.Priority, business_minutes * Minute)
             [] OTHER -> r[c]]

\* A text cell of Created from which no date can be parsed.
Unparseable == -2

\* calculate_metrics(df): works on df.copy().  pd.to_datetime without
\* errors='coerce' raises on a cell that is no date; on a frame without rows
\* df.apply(..., axis=1) gives no timedeltas and the .dt accessor raises.
calculate_metrics(frame) ==
    IF frame.rows = <<>>
       \/ (frame.dtype = OBJECT
             /\ \E i \in 1..Len(frame.rows) : frame.rows[i].Created = Unparseable)
    THEN [caller |-> frame, outcome |-> "raised", frame |-> Frame(DATETIME, <<>>)]
    ELSE [caller |-> frame, outcome |-> "returned",
          frame |-> Frame(DATETIME, [i \in 1..Len(frame.rows) |-> ComputedRow(frame.rows[i])])]

PrioChars == {"1", "2", "3", "4", "9", "P", "SUPERSCRIPT TWO"}

PriorityInputs ==
    {StrCell(p) : p \in UNION {[1..k -> PrioChars] : k \in 0..MaxPrioLen}}
        \cup {IntCell(n) : n \in 1..MaxPrioInt} \cup {NaNCell}

\* Monday 07:00:00
SlaCreated == 7 * HourSeconds

\* Elapsed seconds from SlaCreated that put the business minutes at and just
\* above each target: 240 | 241, 480 | 481, 7200 | 7201, 14400 | 14401.
SlaSpans == {0 - Minute, 10 * Minute,
             4 * HourSeconds - Minute, 4 * HourSeconds,
             8 * HourSeconds - Minute, 8 * HourSeconds,
             11 * Day + 5 * HourSeconds - Minute, 11 * Day + 5 * HourSeconds,
             23 * Day + 5 * HourSeconds - Minute, 23 * Day + 5 * HourSeconds}

InitSla ==
    /\ \E p \in PriorityInputs, sp \in SlaSpans, rm \in BOOLEAN :
          row = [Created |-> SlaCreated,
                 Resolved |-> IF rm THEN NaT ELSE SlaCreated + sp,
                 Priority |-> p]
    /\ duration = NaT
    /\ ticket = NoTicket

\* df = calculate_metrics(raw_df), for a raw_df of one row
CalculateMetrics ==
    /\ ticket = NoTicket
    /\ ticket' = calculate_metrics(Frame(DATETIME, <<row>>)).frame.rows[1]
    /\ UNCHANGED <<row, duration>>
    /\ UNCHANGED <<alertVars, classifyVars, frameVars>>

NextSla == CalculateMetrics

InitSlaSpec == InitAlert /\ InitClassifyIdle /\ InitSla /\ InitFrameIdle

SpecSla == InitSlaSpec /\ [][NextSla]_vars

(***************************************************************************)
(* Calendar fields of a timestamp.  Second 0 is Monday 2024-12-30          *)
(* 00:00:00; the years 2025 to 2027 have 365 days.                         *)
(***************************************************************************)
MonthLengths == <<31, 28, 31, 30, 31, 30, 31, 31, 30, 31, 30, 31>>

RECURSIVE MonthOfYearDay(_, _)
MonthOfYearDay(doy, m) ==
    IF doy < MonthLengths[m] THEN [month |-> m, day |-> doy + 1]
    ELSE MonthOfYearDay(doy - MonthLengths[m], m + 1)

\* Timestamp.year, .month, .day
DateOf(t) ==
    LET d == t \div Day
    IN  IF d < 2 THEN [year |-> 2024, month |-> 12, day |-> 30 + d]
        ELSE LET md == MonthOfYearDay((d - 2) % 365, 1)
             IN  [year |-> 2025 + (d - 2) \div 365, month |-> md.month, day |-> md.day]

\* Series.dt.to_period('M'): the ordinal of the month, months since 1970-01
to_period_M(t) == (DateOf(t).year - 1970) * 12 + DateOf(t).month - 1

\* Series.dt.strftime('%Y-%m')
strftime_Ym(t) == <<DateOf(t).year, DateOf(t).month>>

\* Series.dt.day
DayOfMonth(t) == DateOf(t).day

(***************************************************************************)
(* Text cells are sequences of chunks; the chunk " " is white space.       *)
(***************************************************************************)
RECURSIVE LStrip(_)
LStrip(s) == IF s # <<>> /\ s[1] = " " THEN LStrip(Tail(s)) ELSE s

RECURSIVE RStrip(_)
RStrip(s) == IF s # <<>> /\ s[Len(s)] = " " THEN RStrip(SubSeq(s, 1, Len(s) - 1)) ELSE s

\* .astype(str).str.strip()
Strip(s) == RStrip(LStrip(s))

l1_groups == {<<"Service Desk L1 Sweden">>, <<"Service Desk L1 Finland">>,
              <<"Service Desk L1 Denmark">>, <<"Service Desk L1 Norge">>,
              <<"Service Desk L1 English">>}

resolution_codes == {<<"Solved (Permanently)">>, <<"Solved Remotely (Permanently)">>}

(***************************************************************************)
(* Exact fractions <<numerator, denominator>> in lowest terms.             *)
(***************************************************************************)
RECURSIVE GCD(_, _)
GCD(a, b) == IF b = 0 THEN a ELSE GCD(b, a % b)

Ratio(a, b) == IF a = 0 THEN <<0, 1>> ELSE <<a \div GCD(a, b), b \div GCD(a, b)>>

\* sorted(values): the members of a set of integers in ascending order
RECURSIVE Sorted(_)
Sorted(S) ==
    IF S = {} THEN <<>>
    ELSE LET lo == CHOOSE x \in S : \A y \in S : x <= y
         IN  <<lo>> \o Sorted(S \ {lo})

\* seq[-n:]
MutFirstN(seq, n) == SubSeq(seq, 1, IF Len(seq) < n THEN Len(seq) ELSE n)

LastN(seq, n) == SubSeq(seq, IF Len(seq) > n THEN Len(seq) - n + 1 ELSE 1, Len(seq))

(***************************************************************************)
(* AggregationEngine: get_fcr_gauges.                                      *)
(***************************************************************************)
\* pd.to_datetime(column, errors='coerce'), cell by cell: a datetime column is
\* kept; in an object column the text of a date becomes that timestamp, and a
\* missing or unparseable cell becomes NaT.
to_datetime_coerce(dtype, cell) ==
    IF dtype = DATETIME THEN cell
    ELSE IF cell = Unparseable \/ cell = NaT THEN NaT
    ELSE cell

GaugeWindow == 6

\* month_df[month_df['First_Assignment_group'].astype(str).str.strip().isin(l1_groups)]
L1Started(rows) ==
    SelectSeq(rows, LAMBDA r : Strip(r.First_Assignment_group) \in l1_groups)

\* the rows of l1_started resolved by the first line
FcrTickets(rows) ==
    SelectSeq(L1Started(rows),
              LAMBDA r : /\ Strip(r.Assignment_group) \in l1_groups
                         /\ Strip(r.Resolution_code) \in resolution_codes)

\* val = (len(fcr_tickets) / len(l1_started) * 100) if len(l1_started) > 0 else 0
FcrValue(month_rows) ==
    IF Len(L1Started(month_rows)) > 0
    THEN Ratio(100 * Len(FcrTickets(month_rows)), Len(L1Started(month_rows)))
    ELSE Ratio(0, 1)

\* months = sorted(df['Month_Period'].unique())[-6:]
GaugeMonths(rows) ==
    LastN(Sorted({to_period_M(rows[i].Created) : i \in 1..Len(rows)}), GaugeWindow)

NoDataMessage ==
    [kind |-> "No data available for FCR.", month |-> 0,
     value |-> Ratio(0, 1), reference |-> Ratio(0, 1)]

\* df['Created'] = pd.to_datetime(df['Created'], errors='coerce'), on the frame
\* passed in
ConvertCreated(frame) ==
    Frame(DATETIME, [i \in 1..Len(frame.rows) |->
                       [frame.rows[i] EXCEPT !.Created = to_datetime_coerce(frame.dtype, @)]])

\* get_fcr_gauges(df): the frame the caller holds afterwards and the list
\* returned.  kept is df after dropna(subset=['Created']); the loop over
\* months appends one gauge per month, its delta reference the value of the
\* month before (its own value for the first month).
get_fcr_gauges(frame) ==
    IF frame.rows = <<>>
    THEN [caller |-> frame, returned |-> <<NoDataMessage>>]
    ELSE LET converted == ConvertCreated(frame)
             kept == SelectSeq(converted.rows, LAMBDA r : r.Created # NaT)
             months == GaugeMonths(kept)
             of_month(k) == FcrValue(SelectSeq(kept, LAMBDA r :
                                         to_period_M(r.Created) = months[k]))
         IN  [caller |-> converted,
              returned |-> [k \in 1..Len(months) |->
                  [kind |-> "gauge", month |-> months[k], value |-> of_month(k),
                   reference |-> of_month(IF k = 1 THEN 1 ELSE k - 1)]]]

(***************************************************************************)
(* update_anomaly_alerts: the monthly series it builds from the            *)
(* dashboard's df, their classification and the two log_anomaly calls.     *)
(***************************************************************************)
\* The keys of df.groupby(<month of Created>): rows without a month are dropped.
GroupMonths(rows) ==
    Sorted({to_period_M(rows[i].Created) : i \in {j \in 1..Len(rows) : rows[j].Created # NaT}})

RowsOfMonth(rows, m) ==
    SelectSeq(rows, LAMBDA r : r.Created # NaT /\ to_period_M(r.Created) = m)

Point(month, value) == [month |-> month, value |-> value]

\* prio_df.groupby('Month')['SLA'].apply(lambda x: (x == 'Compliant').mean() * 100)
\* over prio_df = df[df['Priority'] == selected_prio]; NaN equals nothing.
sla_trends(rows, selected_prio) ==
    LET prio_df == SelectSeq(rows, LAMBDA r :
                       r.Priority # NaNCell /\ r.Priority = selected_prio)
        months == GroupMonths(prio_df)
    IN  [k \in 1..Len(months) |->
            LET g == RowsOfMonth(prio_df, months[k])
            IN  Point(months[k],
                      Ratio(100 * Len(SelectSeq(g, LAMBDA r : r.SLA = "Compliant")), Len(g)))]

\* fcr_df.groupby('Month_Period').apply(lambda g: len(g[... isin(resolution_codes)])
\*                                               / len(g) * 100 if len(g) > 0 else 0)
fcr_trends(rows) ==
    LET fcr_df == L1Started(rows)
        months == GroupMonths(fcr_df)
    IN  [k \in 1..Len(months) |->
            LET g == RowsOfMonth(fcr_df, months[k])
            IN  Point(months[k],
                      IF Len(g) > 0
                      THEN Ratio(100 * Len(SelectSeq(g, LAMBDA r :
                                     Strip(r.Resolution_code) \in resolution_codes)), Len(g))
                      ELSE Ratio(0, 1))]

\* The values of a series of fractions over their common denominator L.
RECURSIVE CommonDenominator(_)
CommonDenominator(points) ==
    IF points = <<>> THEN 1
    ELSE LET rest == CommonDenominator(Tail(points))
             d == points[1].value[2]
         IN  (d * rest) \div GCD(d, rest)

Numerators(points) ==
    [k \in 1..Len(points) |->
        points[k].value[1] * (CommonDenominator(points) \div points[k].value[2])]

\* Whether x is a power of two.
RECURSIVE IsPowerOfTwo(_)
IsPowerOfTwo(x) == x = 1 \/ (x > 1 /\ x % 2 = 0 /\ IsPowerOfTwo(x \div 2))

\* The code computes a value as count / len * 100 in binary floating point;
\* the quotient is exact when its denominator is a power of two.
IsExactFloat(value) == IsPowerOfTwo(Ratio(value[1], 100 * value[2])[2])

\* z_score = c exactly, for the numerators s over L
AtThreshold(s, L, c) ==
    LET n == Len(Baseline(s))
        D == ScaledDeviation(s)
        W == ScaledSquares(s)
    IN  IF W = 0 THEN EpsilonInverse * D = c * n * L
        ELSE (D < 0 <=> c < 0) /\ D * D * (n - 1) = c * c * W

\* The possible outcomes of z_score < c.  Away from the threshold the exact
\* comparison decides; exactly at it, with values that binary floating point
\* does not hold exactly, the rounding of mean, std and quotient decides.
ZLessAt(points, c) ==
    LET s == Numerators(points)
        L == CommonDenominator(points)
    IN  IF AtThreshold(s, L, c) /\ \E k \in 1..Len(points) : ~IsExactFloat(points[k].value)
        THEN BOOLEAN
        ELSE IF ScaledSquares(s) = 0
        THEN {EpsilonInverse * ScaledDeviation(s) < c * Len(Baseline(s)) * L}
        ELSE {ZLess(s, c)}

\* The possible outcomes of z_score > c.
ZGreaterAt(points, c) ==
    LET s == Numerators(points)
        L == CommonDenominator(points)
    IN  IF AtThreshold(s, L, c) /\ \E k \in 1..Len(points) : ~IsExactFloat(points[k].value)
        THEN BOOLEAN
        ELSE IF ScaledSquares(s) = 0
        THEN {EpsilonInverse * ScaledDeviation(s) > c * Len(Baseline(s)) * L}
        ELSE {ZGreater(s, c)}

DefaultSigma == 2

\* detect_metric_anomaly(series) for a series of fractions, sigma_threshold=2:
\* the verdicts it can return.
detect_trend_anomaly(points) ==
    IF Len(points) < 3 THEN {INSUFFICIENT_DATA}
    ELSE {IF critical THEN CRITICAL_DROP
          ELSE IF warning THEN UNUSUAL_DECREASE
          ELSE IF improved THEN SIGNIFICANT_IMPROVEMENT
          ELSE STABLE_PERFORMANCE :
             critical \in ZLessAt(points, -(DefaultSigma + 1)),
             warning \in ZLessAt(points, -DefaultSigma),
             improved \in ZGreaterAt(points, DefaultSigma)}

\* str(i) joined into one string
RECURSIVE Join(_)
Join(chars) == IF chars = <<>> THEN "" ELSE chars[1] \o Join(Tail(chars))

\* f"SLA Priority {selected_prio}"
SlaMetricName(selected_prio) == "SLA Priority " \o Join(Str(selected_prio))

\* The options of the priority dropdown: sorted(df['Priority'].unique()), then
\* the nulls left out.  sorted compares the values before any is dropped:
\* a text beside a number (NaN is a float) raises TypeError.
PrioOptions(rows) ==
    LET values == {rows[i].Priority : i \in 1..Len(rows)}
        kinds == {v.kind : v \in values}
    IN  IF "str" \in kinds /\ kinds # {"str"}
        THEN [outcome |-> "raised", options |-> {}]
        ELSE [outcome |-> "returned", options |-> values \ {NaNCell}]

\* The dropdown's initial value: df['Priority'].unique()[0]
InitialPrio(rows) == rows[1].Priority

(***************************************************************************)
(* AggregationEngine: get_mttr_trend_data.                                 *)
(***************************************************************************)
RECURSIVE Insert(_, _)
Insert(sorted, x) ==
    IF sorted = <<>> THEN <<x>>
    ELSE IF x <= sorted[1] THEN <<x>> \o sorted
    ELSE <<sorted[1]>> \o Insert(Tail(sorted), x)

RECURSIVE SortValues(_)
SortValues(s) == IF s = <<>> THEN <<>> ELSE Insert(SortValues(Tail(s)), s[1])

\* The mean or median of no value.
NaN == <<0, 0>>

\* Series.mean() of MTTR, in hours: seconds over 3600
Mean(values) ==
    IF values = <<>> THEN NaN ELSE Ratio(Sum(values), Len(values) * HourSeconds)

\* Series.median() of MTTR, in hours
Median(values) ==
    LET v == SortValues(values)
        n == Len(v)
    IN  IF n = 0 THEN NaN
        ELSE IF n % 2 = 1 THEN Ratio(v[(n + 1) \div 2], HourSeconds)
        ELSE Ratio(v[n \div 2] + v[n \div 2 + 1], 2 * HourSeconds)

\* format_duration(timedelta(hours=h)) for h = num / den hours
\* if pd.isna(h): return "00:00:00"; a negative duration gives "00:00:00:00"
hours_to_hms(h) ==
    IF h = NaN THEN <<0, 0, 0>>
    ELSE IF h[1] < 0 THEN <<0, 0, 0, 0>>
    ELSE LET secs == (h[1] * HourSeconds) \div h[2]
         IN  <<secs \div Day, (secs % Day) \div HourSeconds,
               (secs % HourSeconds) \div Minute, secs % Minute>>

\* filtered_df['Day'] = filtered_df['Created'].dt.day
MutDayOfWeek(t) == WeekdayOf(t)

TrendDay(t) == DayOfMonth(t)

HasColumn(rows, c) == \A i \in 1..Len(rows) : c \in DOMAIN rows[i]

\* get_mttr_trend_data(df, selected_month): works on df.copy(); the .dt accessor
\* needs a datetime column and the aggregation needs the MTTR column.
get_mttr_trend_data(frame, selected_month) ==
    IF frame.dtype # DATETIME
    THEN [caller |-> frame, outcome |-> "raised", rows |-> <<>>]
    ELSE LET filtered == SelectSeq(frame.rows,
                            LAMBDA r : r.Created # NaT
                                       /\ strftime_Ym(r.Created) = selected_month)
             days == Sorted({TrendDay(filtered[i].Created) : i \in 1..Len(filtered)})
             mttr(d) == LET g == SelectSeq(filtered, LAMBDA r :
                                     TrendDay(r.Created) = d /\ ~IsNull(r.MTTR_seconds))
                        IN  [i \in 1..Len(g) |-> g[i].MTTR_seconds]
         IN  IF filtered = <<>>
             THEN [caller |-> frame, outcome |-> "returned", rows |-> <<>>]
             ELSE IF ~HasColumn(filtered, "MTTR_seconds")
             THEN [caller |-> frame, outcome |-> "raised", rows |-> <<>>]
             ELSE [caller |-> frame, outcome |-> "returned",
                   rows |-> [k \in 1..Len(days) |->
                       LET v == mttr(days[k])
                       IN  [Day |-> days[k], mean |-> Mean(v), median |-> Median(v),
                            count |-> Len(v), mean_label |-> hours_to_hms(Mean(v)),
                            median_label |-> hours_to_hms(Median(v))]]]

(***************************************************************************)
(* The dashboard: df is computed once at start-up and the callbacks read   *)
(* it (SpecFcr).                                                           *)
(***************************************************************************)
L1 == <<"Service Desk L1 Sweden">>
L1Padded == <<" ", "Service Desk L1 Finland", " ">>
L2 == <<"Service Desk L2 Network">>
Solved == <<"Solved (Permanently)">>
NotSolved == <<"Not Solved">>

Kind(first, last, code, prio, slow) ==
    [First_Assignment_group |-> first, Assignment_group |-> last,
     Resolution_code |-> code, Priority |-> IntCell(prio), slow |-> slow]

\* What one month of tickets looks like.
Profiles ==
    { <<>>,
      <<Kind(L2, L2, Solved, 1, FALSE)>>,
      <<Kind(L1Padded, L1, <<"Solved Remotely (Permanently)", " ">>, 1, FALSE)>>,
      <<Kind(L1, L2, Solved, 2, TRUE)>>,
      <<Kind(L1, L1, Solved, 1, FALSE), Kind(L1Padded, L1Padded, NotSolved, 1, TRUE)>>,
      <<Kind(L1, L1, Solved, 1, FALSE),
        [Kind(L1, L1, Solved, 1, FALSE) EXCEPT !.Priority = StrCell(<<"2">>)]>>,
      <<Kind(L1, L1, NotSolved, 2, FALSE), Kind(L1, L1, Solved, 2, FALSE),
        Kind(L2, L1, Solved, 1, FALSE)>> }

\* Months in which solved of started first-line tickets were resolved there.
Rate(solved, started) ==
    [j \in 1..started |->
        Kind(L1, L1, IF j <= solved THEN Solved ELSE NotSolved, 1, FALSE)]

\* January to April 2025 (no ticket in the two days of December) with the
\* rates 1, 1, 1, 0, with 1/3, 1/2, 2/3, 0 and with 0, 1/3, 2/3, 1: in the
\* first the last value drops far below a flat baseline, in the others it lies
\* exactly three, respectively two, standard deviations from the mean.
ThresholdSeries ==
    { << <<>>, Rate(1, 1), Rate(1, 1), Rate(1, 1), Rate(0, 1)>>,
      << <<>>, Rate(1, 3), Rate(1, 2), Rate(2, 3), Rate(0, 1)>>,
      << <<>>, Rate(0, 1), Rate(1, 3), Rate(2, 3), Rate(1, 1)>> }

RECURSIVE DaysBefore(_)
DaysBefore(m) == IF m = 1 THEN 0 ELSE DaysBefore(m - 1) + MonthLengths[m - 1]

\* A row of raw_df: ticket j of month k of the data, created at 09:00 of the
\* month's day j.  Month 0 is December 2024 (from the 30th), month k is month
\* k of 2025 otherwise.
RawRow(k, j, kind) ==
    LET month_start == IF k = 0 THEN 0 ELSE (2 + DaysBefore(k)) * Day
        created == month_start + (j - 1) * Day + 9 * HourSeconds
    IN  [Created |-> created,
         Resolved |-> created + (IF kind.slow THEN 5 * HourSeconds ELSE 10 * Minute),
         Priority |-> kind.Priority,
         First_Assignment_group |-> kind.First_Assignment_group,
         Assignment_group |-> kind.Assignment_group,
         Resolution_code |-> kind.Resolution_code]

RECURSIVE Concat(_)
Concat(seqs) == IF seqs = <<>> THEN <<>> ELSE seqs[1] \o Concat(Tail(seqs))

\* raw_df with the tickets of months[k] in month k - 1 of the data
RawFrame(months, descending) ==
    LET rows == Concat([k \in 1..Len(months) |->
                          [j \in 1..Len(months[k]) |-> RawRow(k - 1, j, months[k][j])]])
    IN  IF descending THEN [i \in 1..Len(rows) |-> rows[Len(rows) + 1 - i]] ELSE rows

\* The frames the data file can hold: up to MaxMonths months, every month
\* before the last with one first-line ticket resolved there and one not, the
\* last with any profile; and the threshold series.
RawFrames ==
    LET default == <<Kind(L1, L1, Solved, 1, FALSE),
                     Kind(L1Padded, L1Padded, NotSolved, 1, TRUE)>>
        month_seqs == {[k \in 1..n |-> IF k = n THEN last ELSE default] :
                          n \in 0..MaxMonths, last \in Profiles}
    IN  {RawFrame(months, desc) : months \in month_seqs \cup ThresholdSeries, desc \in BOOLEAN}

\* raw_df = pd.read_excel(data_file); df = calculate_metrics(raw_df);
\* app.layout = ...: the dashboard exists when calculate_metrics has returned
\* and the layout with the priority dropdown has been built.
InitFcr ==
    /\ \E raw \in RawFrames :
       \E r \in {calculate_metrics(Frame(DATETIME, raw))} :
          /\ r.outcome = "returned"
          /\ PrioOptions(r.frame.rows).outcome = "returned"
          /\ df = r.frame
    /\ returned_df = NoFrame
    /\ gauges = NoGauges
    /\ trends = NoTrends
    /\ trend_table = NoTable

\* render_fcr_gauges: return get_fcr_gauges(df)
RenderFcrGauges ==
    /\ \E r \in {get_fcr_gauges(df)} :
           /\ df' = r.caller
           /\ gauges' = [rendered |-> TRUE, list |-> r.returned]
    /\ UNCHANGED <<returned_df, trends, trend_table>>
    /\ UNCHANGED <<alertVars, classifyVars, ticketVars>>

\* The log_anomaly calls that callbacks under way have still to make.
RECURSIVE PendingCalls(_)
PendingCalls(T) ==
    IF T = {} THEN 0
    ELSE LET t == CHOOSE u \in T : TRUE
         IN  Len(thr[t].pending) + PendingCalls(T \ {t})

\* update_anomaly_alerts(selected_prio) on a request thread, up to its first
\* log_anomaly call: both series and both verdicts.  A callback starts while
\* fewer than MaxCalls calls of log_anomaly have been made.
UpdateAnomalyAlerts(t, selected_prio) ==
    /\ thr[t].pc = "idle"
    /\ ncalls + PendingCalls(Threads) < MaxCalls
    /\ df.dtype = DATETIME
    /\ \E sla \in {sla_trends(df.rows, selected_prio)}, fcr \in {fcr_trends(df.rows)} :
       \E sla_v \in detect_trend_anomaly(sla), fcr_v \in detect_trend_anomaly(fcr) :
           /\ trends' = [computed |-> TRUE, sla |-> sla, fcr |-> fcr,
                         sla_verdict |-> sla_v, fcr_verdict |-> fcr_v]
           /\ thr' = [thr EXCEPT ![t] =
                        [IdleThread EXCEPT
                            !.pc = "enter",
                            !.pending = << <<SlaMetricName(selected_prio), sla_v>>,
                                           <<"Global FCR", fcr_v>> >>]]
    /\ UNCHANGED <<last_alert_sent, log, outbox, clock, ncalls, critical_calls, last_call>>
    /\ UNCHANGED <<df, returned_df, gauges, trend_table>>
    /\ UNCHANGED <<classifyVars, ticketVars>>

\* The callback's next log_anomaly(...) call, lines 142 and 143.
CallLogAnomaly(t) ==
    /\ thr[t].pc = "enter"
    /\ Begin(t, thr[t].pending[1][1], thr[t].pending[1][2], Tail(thr[t].pending))
    /\ UNCHANGED <<classifyVars, ticketVars, frameVars>>

\* The callbacks run one after the other on one request thread, as the calls
\* of Spec do; overlapping calls of log_anomaly are the subject of SpecConc.
NextFcr ==
    \/ RenderFcrGauges
    \/ \E p \in PrioOptions(df.rows).options \cup {InitialPrio(df.rows)} :
          UpdateAnomalyAlerts(MainThread, p)
    \/ CallLogAnomaly(MainThread)
    \/ CheckCooldown(MainThread)
    \/ MakeLogRecord(MainThread)
    \/ WriteLog(MainThread)
    \/ \E delivered, failed \in BOOLEAN : SendEmail(MainThread, delivered, failed)
    \/ LogSendError(MainThread)
    \/ UpdateLastSent(MainThread)
    \/ Tick

InitFcrSpec == InitAlert /\ InitClassifyIdle /\ InitTicketIdle /\ InitFcr

SpecFcr == InitFcrSpec /\ [][NextFcr]_vars

(***************************************************************************)
(* update_mttr_trend on the dashboard's df (SpecTrend).                    *)
(***************************************************************************)
\* Friday 2025-01-03 09:00 and 12:00, Monday 2025-01-20 09:00,
\* Monday 2025-02-03 09:00, and a missing Created.
TrendRows ==
    LET created_at == {4 * Day + 9 * HourSeconds, 4 * Day + 12 * HourSeconds,
                       21 * Day + 9 * HourSeconds, 35 * Day + 9 * HourSeconds, NaT}
    IN  {[Created |-> c,
          Resolved |-> IF c = NaT THEN NaT ELSE c + sp,
          Priority |-> IntCell(1),
          First_Assignment_group |-> L1, Assignment_group |-> L1,
          Resolution_code |-> Solved] :
            c \in created_at, sp \in {10 * Minute, 2 * HourSeconds}}

RECURSIVE SeqsUpTo(_, _)
SeqsUpTo(S, n) ==
    IF n = 0 THEN {<<>>}
    ELSE SeqsUpTo(S, n - 1)
           \cup {Append(q, x) : q \in {r \in SeqsUpTo(S, n - 1) : Len(r) = n - 1}, x \in S}

\* Values of the month dropdown, 'YYYY-MM'.
SelectedMonths == {<<2024, 12>>, <<2025, 1>>, <<2025, 2>>, <<2025, 3>>}

InitTrend ==
    /\ \E raw \in SeqsUpTo(TrendRows, MaxTickets) :
       \E r \in {calculate_metrics(Frame(DATETIME, raw))} :
          /\ r.outcome = "returned"
          /\ PrioOptions(r.frame.rows).outcome = "returned"
          /\ df = r.frame
    /\ returned_df = NoFrame
    /\ gauges = NoGauges
    /\ trends = NoTrends
    /\ trend_table = NoTable

\* update_mttr_trend: trend_data = get_mttr_trend_data(df, selected_month)
GetMttrTrendData(selected_month) ==
    /\ \E r \in {get_mttr_trend_data(df, selected_month)} :
          /\ df' = r.caller
          /\ trend_table' = [computed |-> TRUE, selected_month |-> selected_month,
                             outcome |-> r.outcome, rows |-> r.rows]
    /\ UNCHANGED <<returned_df, gauges, trends>>
    /\ UNCHANGED <<alertVars, classifyVars, ticketVars>>

NextTrend == \E m \in SelectedMonths : GetMttrTrendData(m)

InitTrendSpec == InitAlert /\ InitClassifyIdle /\ InitTicketIdle /\ InitTrend

SpecTrend == InitTrendSpec /\ [][NextTrend]_vars

(***************************************************************************)
(* The three core operations called on a frame the caller holds            *)
(* (SpecFrame).  The caller's Created column holds timestamps, or text     *)
(* as read from a file.                                                    *)
(***************************************************************************)
\* Friday 2025-01-03 09:00, Monday 2025-02-03 09:00, a missing value and,
\* in a text column, a cell that is not a date.
\* Frames as read from a file, with Created of the given dtype.
RawCallerFrames(dtype) ==
    LET created_at == {4 * Day + 9 * HourSeconds, 35 * Day + 9 * HourSeconds, NaT}
                         \cup (IF dtype = OBJECT THEN {Unparseable} ELSE {})
        frame_rows == {[Created |-> c,
                        Resolved |-> IF c < 0 THEN NaT ELSE c + 10 * Minute,
                        Priority |-> IntCell(1),
                        First_Assignment_group |-> L1, Assignment_group |-> L1,
                        Resolution_code |-> Solved] : c \in created_at}
    IN  {Frame(dtype, rows) : rows \in SeqsUpTo(frame_rows, MaxFrameRows)}

\* Raw frames, frames that calculate_metrics returned, and such frames with
\* the MTTR cells empty.
CallerFrames ==
    LET raw == RawCallerFrames(DATETIME) \cup RawCallerFrames(OBJECT)
        computed == {calculate_metrics(f).frame :
                        f \in {g \in raw : calculate_metrics(g).outcome = "returned"}}
    IN  raw \cup computed
            \cup {Frame(DATETIME, [i \in 1..Len(f.rows) |->
                                     [f.rows[i] EXCEPT !.MTTR_seconds = NaT]]) :
                     f \in computed}

InitFrame ==
    /\ df \in CallerFrames
    /\ returned_df = NoFrame
    /\ gauges = NoGauges
    /\ trends = NoTrends
    /\ trend_table = NoTable

\* returned = calculate_metrics(df)
CalculateMetricsCall ==
    /\ \E r \in {calculate_metrics(df)} :
          /\ df' = r.caller
          /\ returned_df' = [outcome |-> r.outcome, frame |-> r.frame]
    /\ UNCHANGED <<gauges, trends, trend_table>>
    /\ UNCHANGED <<alertVars, classifyVars, ticketVars>>

NextFrame ==
    \/ CalculateMetricsCall
    \/ RenderFcrGauges
    \/ \E m \in SelectedMonths : GetMttrTrendData(m)

InitFrameSpec == InitAlert /\ InitClassifyIdle /\ InitTicketIdle /\ InitFrame

SpecFrame == InitFrameSpec /\ [][NextFrame]_vars

(***************************************************************************)
(* Claims about log_anomaly called by one request thread (Spec).           *)
(***************************************************************************)
\* A step in which a call of log_anomaly returns to its caller.
IsReturnStep == last_call'.seq # last_call.seq

NotificationsOf(metric_name) ==
    SelectSeq(outbox, LAMBDA a : a.subject = metric_name)

\* C1: a CRITICAL call notifies exactly when the metric has no entry or more than
\* 4 hours have passed since its entry, and then sets the entry to now; any two
\* notifications for the same metric name are more than 4 hours apart.
C1_CooldownStep ==
    (IsReturnStep /\ last_call'.color = RED) =>
        LET m == last_call'.metric_name
            now == last_call'.current_time
            due == m \notin DOMAIN last_alert_sent \/ now - last_alert_sent[m] > 4
        IN  /\ now <= clock
            /\ last_call'.notified = due
            /\ due => /\ outbox' # <<>>
                      /\ outbox'[Len(outbox')].subject = m
                      /\ outbox'[Len(outbox')].at = now
                      /\ DOMAIN last_alert_sent' = DOMAIN last_alert_sent \cup {m}
                      /\ last_alert_sent'[m] = now
                      /\ \A k \in DOMAIN last_alert_sent \ {m} :
                            last_alert_sent'[k] = last_alert_sent[k]
            /\ ~due => outbox' = outbox /\ last_alert_sent' = last_alert_sent

\* A notification is attempted only by a call that has passed its cool-down test.
C1_AttemptStep ==
    outbox' # outbox =>
        \E t \in Threads :
            /\ thr[t].pc = "send"
            /\ \E delivered \in BOOLEAN :
                  outbox' = Append(outbox, [subject |-> thr[t].metric_name,
                                            at |-> thr[t].current_time,
                                            delivered |-> delivered])

C1_NotificationsApart ==
    \A m \in MetricNames :
        LET n == NotificationsOf(m)
        IN  \A i, j \in 1..Len(n) : i < j => n[j].at - n[i].at > 4

C1_Cooldown ==
    [][C1_CooldownStep]_vars /\ [][C1_AttemptStep]_vars /\ []C1_NotificationsApart

\* Three CRITICAL calls for one metric name: notified, suppressed, notified again.
C1_Witness ==
    /\ critical_calls = 3
    /\ Len(outbox) = 2
    /\ outbox[1].subject = outbox[2].subject
    /\ last_call.seq = 3
    /\ last_call.notified
    /\ last_call.metric_name = outbox[2].subject

\* C2: once the calls have returned, the number of CRITICAL log entries equals
\* the number of CRITICAL calls.
C2_EveryCriticalCallLogged ==
    (\A t \in Threads : thr[t].pc = "idle") =>
        Len(SelectSeq(log, LAMBDA e : e.levelname = "CRITICAL")) = critical_calls

\* C3: a transport failure inside a CRITICAL call does not reach the caller: the
\* call returns normally, the failure is logged as an ERROR entry, and the
\* call's anomaly entry, written during the call and right before the
\* failure's entry, is in the log.
C3_TransportFailureContained ==
    last_call.transport = "failed" =>
        /\ last_call.outcome = "returned"
        /\ \E i, j \in 1..Len(log) :
              /\ j = i + 1
              /\ log[i].levelname = "CRITICAL"
              /\ log[i].asctime >= last_call.current_time
              /\ log[i].message = <<last_call.metric_name, last_call.status>>
              /\ log[j].levelname = "ERROR"
              /\ log[j].asctime >= log[i].asctime
              /\ log[j].message[1] = "Failed to send email"

C3_Witness ==
    /\ last_call.color = RED
    /\ last_call.transport = "failed"
    /\ last_call.outcome = "returned"
    /\ log # <<>>
    /\ log[Len(log)].levelname = "ERROR"
    /\ log[Len(log)].asctime > last_call.current_time

\* C5: a call whose severity is not CRITICAL triggers no notification and leaves
\* the entry of every metric name as it was.
C5_NonCriticalStep ==
    (ncalls' = ncalls + 1 /\ critical_calls' = critical_calls) =>
        /\ IsReturnStep
        /\ last_call'.seq = ncalls'
        /\ last_call'.color # RED
        /\ ~last_call'.notified
        /\ outbox' = outbox
        /\ last_alert_sent' = last_alert_sent
        /\ log' = log

C5_OnlyCriticalActs == [][C5_NonCriticalStep]_vars

\* A WARNING call made while another metric already has an entry.
C5_Witness ==
    /\ last_call.color = YELLOW
    /\ last_call.outcome = "returned"
    /\ DOMAIN last_alert_sent # {}
    /\ last_call.metric_name \notin DOMAIN last_alert_sent

\* C14: a CRITICAL call outside the cool-down stores now for the metric name
\* whether or not the transport succeeded, and after a failed send no further
\* CRITICAL call for that name within the next 4 hours attempts a notification.
C14_FailedSendStep ==
    (IsReturnStep /\ last_call'.color = RED) =>
        LET m == last_call'.metric_name
            now == last_call'.current_time
            earlier == IF last_call'.notified
                       THEN SubSeq(outbox', 1, Len(outbox') - 1) ELSE outbox'
            failedRecently ==
                \E i \in 1..Len(earlier) :
                    /\ earlier[i].subject = m
                    /\ ~earlier[i].delivered
                    /\ now - earlier[i].at <= 4
        IN  /\ last_call'.notified =>
                (m \in DOMAIN last_alert_sent' /\ last_alert_sent'[m] = now)
            /\ failedRecently => ~last_call'.notified

C14_NoRetryInCooldown == [][C14_FailedSendStep]_vars

\* A CRITICAL call suppressed while the only attempt for its name had failed.
C14_Witness ==
    /\ last_call.color = RED
    /\ ~last_call.notified
    /\ NotificationsOf(last_call.metric_name) # <<>>
    /\ \A i \in 1..Len(outbox) :
          outbox[i].subject = last_call.metric_name => ~outbox[i].delivered
    /\ last_alert_sent[last_call.metric_name] < last_call.current_time

(***************************************************************************)
(* Claims about log_anomaly called concurrently (SpecConc).                *)
(***************************************************************************)
\* C4: at most one notification per cool-down window for a metric name, under
\* every interleaving of concurrent calls: any two notifications for the same
\* metric name are more than 4 hours apart.
C4_OneNotificationPerWindow ==
    \A i, j \in 1..Len(outbox) :
        (i < j /\ outbox[i].subject = outbox[j].subject)
            => outbox[j].at - outbox[i].at > 4

(***************************************************************************)
(* Claims about detect_metric_anomaly (SpecClassify).  The claims' z is    *)
(* stated from the sums S and Q = SUM x^2 of the baseline:                 *)
(*   var = (n*Q - S^2) / (n*(n-1)),  z = (current - S/n) / sqrt(var).      *)
(***************************************************************************)
RECURSIVE SumSq(_)
SumSq(s) == IF s = <<>> THEN 0 ELSE s[1] * s[1] + SumSq(Tail(s))

AllButLast(s) == [i \in 1..(Len(s) - 1) |-> s[i]]

\* -1, 0 or 1: how z compares with the integer c
CompareZ(s, c) ==
    LET b == AllButLast(s)
        n == Len(b)
        S == Sum(b)
        V == n * SumSq(b) - S * S          \* n*(n-1)*var
        d == n * s[Len(s)] - S             \* n*(current - mu)
    IN  IF V = 0
        THEN IF 1000 * d < c * n THEN -1 ELSE IF 1000 * d > c * n THEN 1 ELSE 0
        ELSE LET L == d * d * (n - 1)      \* z^2 * n*V
                 R == c * c * n * V        \* c^2 * n*V
                 sl == IF d < 0 THEN 0 - L ELSE L
                 sr == IF c < 0 THEN 0 - R ELSE R
             IN  IF sl < sr THEN -1 ELSE IF sl > sr THEN 1 ELSE 0

Classified == verdict # NoVerdict

\* C6: fewer than 3 points give INSUFFICIENT DATA; otherwise CRITICAL if
\* z < -(sigma+1), else WARNING if z < -sigma, else IMPROVEMENT if z > sigma, else
\* STABLE; and [10,10,10,10,1] with sigma_threshold = 2 is CRITICAL.
C6_Classification ==
    Classified =>
        /\ Len(series) < 3 => verdict = INSUFFICIENT_DATA
        /\ Len(series) >= 3 =>
              verdict =
                 IF CompareZ(series, 0 - (sigma_threshold + 1)) = -1 THEN CRITICAL_DROP
                 ELSE IF CompareZ(series, 0 - sigma_threshold) = -1 THEN UNUSUAL_DECREASE
                 ELSE IF CompareZ(series, sigma_threshold) = 1 THEN SIGNIFICANT_IMPROVEMENT
                 ELSE STABLE_PERFORMANCE
        /\ (series = <<10, 10, 10, 10, 1>> /\ sigma_threshold = 2)
              => (verdict[1] = "CRITICAL PERFORMANCE DROP" /\ verdict[2] = "#F70D1A")

C6_Witness ==
    /\ series = <<10, 10, 10, 10, 1>>
    /\ sigma_threshold = 2
    /\ verdict = CRITICAL_DROP

IsFlat(s) == \A i \in 1..Len(s) : s[i] = s[1]

\* C7 as stated: a flat series of 3 or more identical values is STABLE for every
\* sigma_threshold, zero and negative thresholds included.
C7_FlatStableAnyThreshold ==
    (Classified /\ Len(series) >= 3 /\ IsFlat(series)) => verdict = STABLE_PERFORMANCE

\* C7 as amended: a flat series of 3 or more identical values is STABLE for every
\* sigma_threshold >= 0; for sigma_threshold = -1 it is a WARNING and for
\* sigma_threshold < -1 it is CRITICAL.
C7_FlatStableNonNegativeThreshold ==
    (Classified /\ Len(series) >= 3 /\ IsFlat(series)) =>
        /\ sigma_threshold >= 0 => verdict = STABLE_PERFORMANCE
        /\ sigma_threshold = -1 => verdict = UNUSUAL_DECREASE
        /\ sigma_threshold < -1 => verdict = CRITICAL_DROP

C7_Witness ==
    /\ Len(series) >= 3
    /\ IsFlat(series)
    /\ sigma_threshold = 0
    /\ verdict = STABLE_PERFORMANCE

(***************************************************************************)
(* Claims about get_swedish_business_hours (SpecHours).                    *)
(***************************************************************************)
HoursComputed == duration # NaT

\* Mon-Fri with hour in [7, 18), or Sat-Sun with hour in [8, 16); t in seconds
\* since a Monday 00:00:00.
InBusinessWindow(t) ==
    LET dayIndex == (t \div 86400) % 7
        secondOfDay == t % 86400
    IN  \/ dayIndex \in 0..4 /\ secondOfDay >= 7 * 3600 /\ secondOfDay < 18 * 3600
        \/ dayIndex \in 5..6 /\ secondOfDay >= 8 * 3600 /\ secondOfDay < 16 * 3600

\* C8: 0 when start or end is missing or end <= start; otherwise the number of
\* instants start + k minutes <= end, k >= 0, that fall in a business window; so
\* n >= 1 whole minutes inside one business window count n + 1.
C8_BusinessMinutes ==
    HoursComputed =>
        LET start == row.Created
            end == row.Resolved
        IN  IF start = NaT \/ end = NaT \/ end <= start
            THEN duration = 0
            ELSE /\ duration = Cardinality(
                        {k \in 0..((end - start) \div 60 + 1) :
                            start + k * 60 <= end /\ InBusinessWindow(start + k * 60)})
                 /\ ( /\ (end - start) % 60 = 0
                      /\ start \div 86400 = end \div 86400
                      /\ InBusinessWindow(start)
                      /\ InBusinessWindow(end) )
                       => duration = (end - start) \div 60 + 1

\* Monday 07:00 to 07:10: ten whole minutes inside a window count eleven.
C8_Witness ==
    /\ row.Created = 7 * 3600
    /\ row.Resolved = 7 * 3600 + 600
    /\ duration = 11

\* C9: a full calendar week, Monday 00:00 to the following Monday 00:00, is
\* 5*11*60 + 2*8*60 = 4260 business minutes.
C9_FullWeek ==
    ( /\ HoursComputed
      /\ row.Created # NaT
      /\ row.Created % (7 * 86400) = 0
      /\ row.Resolved = row.Created + 7 * 86400 )
        => (duration = 5 * 11 * 60 + 2 * 8 * 60 /\ duration = 4260)

C9_Witness ==
    /\ row.Created = 0
    /\ row.Resolved = 7 * 86400
    /\ duration = 4260

(***************************************************************************)
(* Claims about calculate_metrics (SpecSla).                               *)
(***************************************************************************)
MetricsComputed == ticket # NoTicket

DecimalDigits == {"0", "1", "2", "3", "4", "5", "6", "7", "8", "9"}

\* The first decimal digit character anywhere in the text, 3 when there is none.
SelectingDigit(text) ==
    LET at == {i \in 1..Len(text) : text[i] \in DecimalDigits}
    IN  IF at = {} THEN "3"
        ELSE text[CHOOSE i \in at : \A j \in at : i <= j]

ThresholdHours(d) ==
    IF d = "1" THEN 4 ELSE IF d = "2" THEN 8 ELSE IF d = "4" THEN 240 ELSE 120

\* C10: the verdict is Compliant iff business_minutes / 60 <= threshold, the
\* threshold chosen by the first digit of the priority field (3 when none):
\* 1 -> 4, 2 -> 8, 3 -> 120, 4 -> 240, any other -> 120; otherwise Breach.  A
\* ticket without a resolved timestamp has duration 0 and is Compliant.
C10_SlaVerdict ==
    MetricsComputed =>
        LET minutes == ticket.MTTR_seconds \div 60
            limit == ThresholdHours(SelectingDigit(Str(row.Priority)))
        IN  /\ ticket.MTTR_seconds = 60 * get_swedish_business_hours(row)
            /\ ticket.SLA \in {"Compliant", "Breach"}
            /\ ticket.SLA = "Compliant" <=> minutes <= 60 * limit
            /\ row.Resolved = NaT => (minutes = 0 /\ ticket.SLA = "Compliant")

(***************************************************************************)
(* Claims about the dashboard's FCR series (SpecFcr).                      *)
(***************************************************************************)
\* The gauges of the rendered list, in order.
GaugeSeries == SelectSeq(gauges.list, LAMBDA g : g.kind = "gauge")

\* A text cell without its leading and trailing white space.
Trimmed(s) ==
    LET inked == {i \in 1..Len(s) : s[i] # " "}
    IN  IF inked = {} THEN <<>>
        ELSE SubSeq(s, CHOOSE i \in inked : \A j \in inked : i <= j,
                       CHOOSE i \in inked : \A j \in inked : i >= j)

DatedRows == {i \in 1..Len(df.rows) : df.rows[i].Created # NaT}

MonthsPresent == {to_period_M(df.rows[i].Created) : i \in DatedRows}

\* The tickets of month m that started at the first line.
Denominator(m) ==
    Cardinality({i \in DatedRows :
        /\ to_period_M(df.rows[i].Created) = m
        /\ Trimmed(df.rows[i].First_Assignment_group) \in l1_groups})

\* Those of them the first line resolved.
Numerator(m) ==
    Cardinality({i \in DatedRows :
        /\ to_period_M(df.rows[i].Created) = m
        /\ Trimmed(df.rows[i].First_Assignment_group) \in l1_groups
        /\ Trimmed(df.rows[i].Assignment_group) \in l1_groups
        /\ Trimmed(df.rows[i].Resolution_code) \in resolution_codes})

\* C11: the monthly FCR series of get_fcr_gauges has one entry for each of the
\* last min(6, n) distinct months of the data, in strictly ascending order; an
\* entry's value is numerator / denominator * 100, and a month whose
\* denominator is empty is present with value 0.
C11_MonthlyFcrSeries ==
    gauges.rendered =>
        LET s == GaugeSeries
            n == Cardinality(MonthsPresent)
        IN  /\ Len(s) = IF n < 6 THEN n ELSE 6
            /\ \A k \in 1..Len(s) :
                  /\ s[k].month \in MonthsPresent
                  /\ Cardinality({m \in MonthsPresent : m > s[k].month}) = Len(s) - k
                  /\ k < Len(s) => s[k].month < s[k + 1].month
                  /\ IF Denominator(s[k].month) = 0
                     THEN s[k].value = <<0, 1>>
                     ELSE s[k].value[1] * Denominator(s[k].month)
                             = 100 * Numerator(s[k].month) * s[k].value[2]

\* More than six months of tickets, stored latest first, one month without a
\* first-line ticket and one month with a rate strictly between 0 and 100.
C11_Witness ==
    /\ gauges.rendered
    /\ Cardinality(MonthsPresent) > 6
    /\ df.rows[1].Created > df.rows[Len(df.rows)].Created
    /\ \E k \in 1..Len(GaugeSeries) : Denominator(GaugeSeries[k].month) = 0
    /\ \E k \in 1..Len(GaugeSeries) :
          /\ 0 < Numerator(GaugeSeries[k].month)
          /\ Numerator(GaugeSeries[k].month) < Denominator(GaugeSeries[k].month)

\* C15: the FCR series update_anomaly_alerts classifies is the monthly FCR
\* series of get_fcr_gauges over the same tickets: the same months and, for
\* each month, the same value.
C15_SameFcrSeries ==
    (gauges.rendered /\ trends.computed) =>
        trends.fcr = [k \in 1..Len(GaugeSeries) |->
                        Point(GaugeSeries[k].month, GaugeSeries[k].value)]

(***************************************************************************)
(* Claims about get_mttr_trend_data (SpecTrend).                           *)
(***************************************************************************)
\* The tickets of df created in the selected month.
Matching ==
    {i \in 1..Len(df.rows) :
        /\ df.rows[i].Created # NaT
        /\ DateOf(df.rows[i].Created).year = trend_table.selected_month[1]
        /\ DateOf(df.rows[i].Created).month = trend_table.selected_month[2]}

MatchingDays == {DateOf(df.rows[i].Created).day : i \in Matching}

\* C13: get_mttr_trend_data returns an empty result, not an error, when no
\* ticket was created in selected_month; otherwise one row per distinct
\* day-of-month of the matching tickets, ascending by day, whose count is the
\* number of matching tickets created on that day.
C13_TrendByDay ==
    trend_table.computed =>
        /\ trend_table.outcome = "returned"
        /\ Matching = {} => trend_table.rows = <<>>
        /\ Matching # {} =>
              /\ Len(trend_table.rows) = Cardinality(MatchingDays)
              /\ \A k \in 1..Len(trend_table.rows) :
                    /\ trend_table.rows[k].Day \in MatchingDays
                    /\ k < Len(trend_table.rows)
                          => trend_table.rows[k].Day < trend_table.rows[k + 1].Day
                    /\ trend_table.rows[k].count
                          = Cardinality({i \in Matching :
                               DateOf(df.rows[i].Created).day = trend_table.rows[k].Day})

\* Two days of the selected month, the later one first in df, and a day with
\* two tickets.
C13_Witness ==
    /\ trend_table.computed
    /\ Len(trend_table.rows) = 2
    /\ trend_table.rows[1].count = 2
    /\ df.rows[1].Created # NaT
    /\ DateOf(df.rows[1].Created).day = trend_table.rows[2].Day

(***************************************************************************)
(* Claims about the caller's frame (SpecFrame).                            *)
(***************************************************************************)
\* C12: calculate_metrics, get_fcr_gauges and get_mttr_trend_data leave the
\* frame passed in as it was: every field of every record, Created included,
\* and the set of columns.
C12_CallerFrameUnchanged == [][df' = df]_vars

====
